---- MODULE Spec2Model ----
(***************************************************************************)
(* Model of src/src/runtime/tui.c: the terminal session (tui_t), its line  *)
(* editor, its history store, tui_process_input and the loop of tui_run.   *)
(*                                                                         *)
(* Text is a sequence of one-character strings.  A char* is either NULL or *)
(* the C string it points to.  The input buffer is an array of cells; a    *)
(* cell holds a character, the terminator NUL, or UNINIT (malloc'ed memory *)
(* that was never written).                                                *)
(***************************************************************************)
EXTENDS Integers, Sequences, FiniteSets, TLC

\* ---------------------------------------------------------------- bounds
\* tui->input_capacity (TUI_MAX_INPUT_LENGTH), scaled down
TUI_MAX_INPUT_LENGTH == 3
\* tui->history_capacity (TUI_INPUT_HISTORY_SIZE), scaled down
TUI_INPUT_HISTORY_SIZE == 2
\* how far below (uint32_t)-1 the model follows history_pos
MaxUnderflow == 1
\* how many entries the direct callers of tui_history_add are followed for
MaxAdds == 3
\* how many tui_history_prev/next calls are followed after one stored entry
\* successful entries into raw mode explored in the life-cycle specification
MaxRuns == 2
MaxBrowse == 2 * TUI_INPUT_HISTORY_SIZE + 1

\* ------------------------------------------------------------ characters
NUL == "NUL"
UNINIT == "UNINIT"
NULL == <<"NULL">>
\* what a faulting read delivers instead of a value (SIGSEGV)
SEGV == <<"SEGV">>

TUI_KEY_ESC == "ESC"
TUI_KEY_BACKSPACE == "DEL"
TUI_KEY_CTRL(ch) == "^" \o ch

\* isprint(c) over the bytes the model feeds to the program
isprint(c) == c \in {"a", "b", "c", "[", "O", "A", "B", "C", "D", "3", "~", "x"}

\* --------------------------------------------------- uint32_t arithmetic
\* A uint32_t value v is held as the integer congruent to it mod 2^32 that
\* lies nearest to 0: (uint32_t)-1 is -1, (uint32_t)-2 is -2.  Every other
\* quantity compared with it (history_count) is small and non-negative.
U32Lt(a, b) == a >= 0 /\ a < b
U32Gt0(a) == a # 0
NOT_BROWSING == -1

\* ------------------------------------------------------------- C strings
Min(a, b) == IF a < b THEN a ELSE b

\* the cell a read of buf[i] delivers; an uninitialised cell reads as u
ReadCell(buf, i, u) == IF buf[i] = UNINIT THEN u ELSE buf[i]

\* strlen(buf) over an array of n cells: the index of the first NUL, or n
\* when the scan runs off the end of the array
RECURSIVE strlen_from(_, _, _, _)
strlen_from(buf, n, i, u) ==
    IF i >= n THEN n
    ELSE IF ReadCell(buf, i, u) = NUL THEN i
    ELSE strlen_from(buf, n, i + 1, u)

strlen_buf(buf, n, u) == strlen_from(buf, n, 0, u)

\* the C string held in buf (read until the first NUL)
CStr(buf, n) == [i \in 1..strlen_buf(buf, n, UNINIT) |-> buf[i - 1]]

\* strncpy(dst, src, n): copies src, pads with NUL up to n bytes, writes no
\* terminator when strlen(src) >= n; cells from n on are left alone
strncpy(dst, src, n) ==
    [i \in DOMAIN dst |->
        IF i < n THEN (IF i < Len(src) THEN src[i + 1] ELSE NUL)
        ELSE dst[i]]

\* ---------------------------------------------------------------- state
VARIABLES
    tui,        \* the session object (tui_t)
    g_tui,      \* the process-wide session slot
    pc,         \* position of the thread inside tui_run
    run_ret,    \* value the last tui_run returned
    term,       \* the terminal: attributes, cursor visibility, handler
    out,        \* what the last step wrote to the terminal
    ret,        \* what the last direct API call returned
    last,       \* the last operation and its input
    mem,        \* "ok", or how the process left defined behaviour
    accepted,   \* entries tui_history_add has stored so far, oldest first
    browse      \* prev/next calls and their results since the last stored entry

vars == <<tui, g_tui, pc, run_ret, term, out, ret, last, mem, accepted, browse>>

\* -------------------------------------------------------------- creation
\* tui_create: calloc zeroes every field; the input buffer is malloc'ed and
\* only its first cell is written
tui_create(w, h) ==
    [ running          |-> FALSE,
      needs_redraw     |-> TRUE,
      raw_mode         |-> FALSE,
      input_capacity   |-> TUI_MAX_INPUT_LENGTH,
      input_buffer     |-> [i \in 0..(TUI_MAX_INPUT_LENGTH - 1) |->
                               IF i = 0 THEN NUL ELSE UNINIT],
      input_len        |-> 0,
      input_pos        |-> 0,
      history_capacity |-> TUI_INPUT_HISTORY_SIZE,
      history          |-> [i \in 0..(TUI_INPUT_HISTORY_SIZE - 1) |-> NULL],
      history_count    |-> 0,
      history_pos      |-> 0,
      width            |-> w,
      height           |-> h,
      original_termios |-> "unset" ]

\* ------------------------------------------------------------ line editor
tui_input_clear(t) ==
    [t EXCEPT !.input_buffer[0] = NUL, !.input_len = 0, !.input_pos = 0]

\* for (i = input_len; i > input_pos; i--) buf[i] = buf[i - 1];
RECURSIVE ShiftRight(_, _, _)
ShiftRight(buf, i, pos) ==
    IF i > pos THEN ShiftRight([buf EXCEPT ![i] = buf[i - 1]], i - 1, pos)
    ELSE buf

\* for (i = from; i < input_len - 1; i++) buf[i] = buf[i + 1];
RECURSIVE ShiftLeft(_, _, _)
ShiftLeft(buf, i, len) ==
    IF i < len - 1 THEN ShiftLeft([buf EXCEPT ![i] = buf[i + 1]], i + 1, len)
    ELSE buf

\* tui_input_insert as it would be without the shift that makes room
tui_input_insert_overwrites(t, c) ==
    IF t.input_len >= t.input_capacity - 1 THEN t
    ELSE LET b2 == [t.input_buffer EXCEPT ![t.input_pos] = c]
         IN  [t EXCEPT !.input_buffer = [b2 EXCEPT ![t.input_len + 1] = NUL],
                       !.input_len = t.input_len + 1,
                       !.input_pos = t.input_pos + 1]

tui_input_insert(t, c) ==
    IF t.input_len >= t.input_capacity - 1 THEN t
    ELSE LET b1 == ShiftRight(t.input_buffer, t.input_len, t.input_pos)
             b2 == [b1 EXCEPT ![t.input_pos] = c]
         IN  [t EXCEPT !.input_buffer = [b2 EXCEPT ![t.input_len + 1] = NUL],
                       !.input_len = t.input_len + 1,
                       !.input_pos = t.input_pos + 1]

tui_input_backspace(t) ==
    IF t.input_pos = 0 THEN t
    ELSE LET b1 == ShiftLeft(t.input_buffer, t.input_pos - 1, t.input_len)
         IN  [t EXCEPT !.input_buffer = [b1 EXCEPT ![t.input_len - 1] = NUL],
                       !.input_len = t.input_len - 1,
                       !.input_pos = t.input_pos - 1]

tui_input_delete(t) ==
    IF t.input_pos >= t.input_len THEN t
    ELSE LET b1 == ShiftLeft(t.input_buffer, t.input_pos, t.input_len)
         IN  [t EXCEPT !.input_buffer = [b1 EXCEPT ![t.input_len - 1] = NUL],
                       !.input_len = t.input_len - 1]

tui_input_move_left(t) ==
    IF t.input_pos > 0 THEN [t EXCEPT !.input_pos = t.input_pos - 1] ELSE t

tui_input_move_right(t) ==
    IF t.input_pos < t.input_len THEN [t EXCEPT !.input_pos = t.input_pos + 1]
    ELSE t

tui_input_move_home(t) == [t EXCEPT !.input_pos = 0]

tui_input_move_end(t) == [t EXCEPT !.input_pos = t.input_len]

\* tui_input_get returns the buffer; its caller reads it as a C string
tui_input_get(t) == CStr(t.input_buffer, t.input_capacity)

\* ---------------------------------------------------------------- history
\* for (i = history_count; i > 0; i--) history[i] = history[i - 1];
RECURSIVE ShiftHistory(_, _)
ShiftHistory(h, i) ==
    IF i > 0 THEN ShiftHistory([h EXCEPT ![i] = h[i - 1]], i - 1) ELSE h

\* tui_history_add as it would be without the repeat check
tui_history_add_no_dedup(t, entry) ==
    IF entry = NULL \/ Len(entry) = 0 THEN t
    ELSE LET cnt == IF t.history_count >= t.history_capacity
                    THEN t.history_count - 1
                    ELSE t.history_count
             h1  == ShiftHistory(t.history, cnt)
         IN  [t EXCEPT !.history = [h1 EXCEPT ![0] = entry],
                       !.history_count = cnt + 1,
                       !.history_pos = NOT_BROWSING]

\* tui_history_add as it would be if a full store dropped its newest entry
tui_history_add_drops_newest(t, entry) ==
    IF entry = NULL \/ Len(entry) = 0 THEN t
    ELSE IF t.history_count > 0 /\ t.history[0] = entry THEN t
    ELSE LET full == t.history_count >= t.history_capacity
             cnt  == IF full THEN t.history_count - 1 ELSE t.history_count
             h1   == IF full THEN t.history ELSE ShiftHistory(t.history, cnt)
         IN  [t EXCEPT !.history = [h1 EXCEPT ![0] = entry],
                       !.history_count = cnt + 1,
                       !.history_pos = NOT_BROWSING]

tui_history_add(t, entry) ==
    IF entry = NULL \/ Len(entry) = 0 THEN t
    ELSE IF t.history_count > 0 /\ t.history[0] = entry THEN t
    ELSE LET cnt == IF t.history_count >= t.history_capacity
                    THEN t.history_count - 1
                    ELSE t.history_count
             h1  == ShiftHistory(t.history, cnt)
         IN  [t EXCEPT !.history = [h1 EXCEPT ![0] = entry],
                       !.history_count = cnt + 1,
                       !.history_pos = NOT_BROWSING]

\* tui_history_prev as it would be if it wrapped round at the oldest entry
tui_history_prev_wraps(t) ==
    IF t.history_count = 0 THEN [t |-> t, ret |-> NULL]
    ELSE IF U32Lt(t.history_pos + 1, t.history_count)
    THEN [t   |-> [t EXCEPT !.history_pos = t.history_pos + 1],
          ret |-> t.history[t.history_pos + 1]]
    ELSE [t |-> [t EXCEPT !.history_pos = 0], ret |-> t.history[0]]

\* returns the session and the pointer handed back
tui_history_prev(t) ==
    IF t.history_count = 0 THEN [t |-> t, ret |-> NULL]
    ELSE IF U32Lt(t.history_pos + 1, t.history_count)
    THEN [t   |-> [t EXCEPT !.history_pos = t.history_pos + 1],
          ret |-> t.history[t.history_pos + 1]]
    ELSE [t |-> t, ret |-> NULL]

\* g is what the read of history[history_pos] delivers when the index lies
\* outside the array: any pointer value, or SEGV
tui_history_next(t, g) ==
    IF t.history_count = 0 THEN [t |-> t, ret |-> NULL]
    ELSE IF U32Gt0(t.history_pos)
    THEN [t   |-> [t EXCEPT !.history_pos = t.history_pos - 1],
          ret |-> IF (t.history_pos - 1) \in DOMAIN t.history
                  THEN t.history[t.history_pos - 1]
                  ELSE g]
    ELSE [t |-> [t EXCEPT !.history_pos = NOT_BROWSING], ret |-> NULL]

\* the stored entries, newest first
Hist(t) == [i \in 1..t.history_count |-> t.history[i - 1]]

\* ------------------------------------------------------------- rendering
Event(ev, text, w, h) == [ev |-> ev, text |-> text, w |-> w, h |-> h]

\* tui_redraw: a full repaint from the stored dimensions and the line
tui_redraw(t) ==
    Event("redraw", CStr(t.input_buffer, t.input_capacity), t.width, t.height)

tui_chat_add_system_message(text) == Event("system", text, 0, 0)

tui_chat_add_user_message(text) == Event("user", text, 0, 0)

\* -------------------------------------------------------- input handling
\* Result of one call: the session, the output written, and whether the
\* call stayed within defined behaviour.
Result(t, o, m) == [t |-> t, out |-> o, mem |-> m]

\* Arrow keys: strncpy of the recalled entry, then strlen of the buffer.
\* u is the value an uninitialised cell is read as.  A scan that runs off
\* the end of the buffer leaves input_len >= input_capacity.
Recall(t, hist, u) ==
    LET b == strncpy(t.input_buffer, hist, t.input_capacity - 1)
        n == strlen_buf(b, t.input_capacity, u)
        r == [i \in DOMAIN b |-> IF i <= n THEN ReadCell(b, i, u) ELSE b[i]]
    IN  [t EXCEPT !.input_buffer = r, !.input_len = n, !.input_pos = n]

Dirty(t) == [t EXCEPT !.needs_redraw = TRUE]

\* the Enter branch as it would be if the line were cleared before it is
\* handed over
Submit_clears_first(t) ==
    LET t1  == tui_history_add(t, CStr(t.input_buffer, t.input_capacity))
        t2  == tui_input_clear(t1)
        msg == tui_chat_add_user_message(
                   CStr(t2.input_buffer, t2.input_capacity))
    IN  [t |-> t2, out |-> <<msg>>]

\* Enter with a non-empty line: tui_history_add(input_buffer), then
\* tui_chat_add_user_message(input_buffer), then tui_input_clear
Submit(t) ==
    LET t1  == tui_history_add(t, CStr(t.input_buffer, t.input_capacity))
        msg == tui_chat_add_user_message(
                   CStr(t1.input_buffer, t1.input_capacity))
        t2  == tui_input_clear(t1)
    IN  [t |-> t2, out |-> <<msg>>]

\* rd: the bytes the reads of this call deliver, in order; a read past the
\* end of rd times out.
tui_process_input(t, rd, g, u) ==
    IF Len(rd) = 0 THEN Result(t, <<>>, "ok")
    ELSE LET c == rd[1] IN
    IF c = "ESC" THEN
        IF Len(rd) < 2 THEN Result(t, <<>>, "ok")
        ELSE IF Len(rd) < 3 THEN Result(t, <<>>, "ok")
        ELSE IF rd[2] # "[" THEN Result(Dirty(t), <<>>, "ok")
        ELSE IF rd[3] = "A" THEN
            LET p == tui_history_prev(t) IN
            IF p.ret # NULL
            THEN LET t1 == Recall(p.t, p.ret, u) IN
                 Result(Dirty(t1), <<>>,
                        IF t1.input_len > t1.input_capacity - 1
                        THEN "undefined" ELSE "ok")
            ELSE Result(Dirty(p.t), <<>>, "ok")
        ELSE IF rd[3] = "B" THEN
            LET p == tui_history_next(t, g) IN
            IF p.ret = SEGV THEN Result(p.t, <<>>, "fault")
            ELSE IF p.ret # NULL
            THEN LET t1 == Recall(p.t, p.ret, u) IN
                 Result(Dirty(t1), <<>>,
                        IF t1.input_len > t1.input_capacity - 1
                        THEN "undefined" ELSE "ok")
            ELSE Result(Dirty(tui_input_clear(p.t)), <<>>, "ok")
        ELSE IF rd[3] = "C" THEN Result(Dirty(tui_input_move_right(t)), <<>>, "ok")
        ELSE IF rd[3] = "D" THEN Result(Dirty(tui_input_move_left(t)), <<>>, "ok")
        ELSE IF rd[3] = "3" THEN Result(Dirty(tui_input_delete(t)), <<>>, "ok")
        ELSE Result(Dirty(t), <<>>, "ok")
    ELSE IF c = TUI_KEY_CTRL("c") \/ c = TUI_KEY_CTRL("q")
    THEN Result([t EXCEPT !.running = FALSE], <<>>, "ok")
    ELSE IF c = TUI_KEY_CTRL("h")
    THEN Result(Dirty(t), <<tui_chat_add_system_message(<<"help">>)>>, "ok")
    ELSE IF c = TUI_KEY_CTRL("n")
    THEN Result(Dirty(t), <<tui_chat_add_system_message(<<"branch">>)>>, "ok")
    ELSE IF c = TUI_KEY_CTRL("l")
    THEN Result(t, <<tui_redraw(t)>>, "ok")
    ELSE IF c = "CR" \/ c = "LF" THEN
        IF t.input_len > 0
        THEN LET r == Submit(t) IN Result(Dirty(r.t), r.out, "ok")
        ELSE Result(Dirty(t), <<>>, "ok")
    ELSE IF c = TUI_KEY_BACKSPACE THEN Result(Dirty(tui_input_backspace(t)), <<>>, "ok")
    ELSE IF c = TUI_KEY_CTRL("a") THEN Result(Dirty(tui_input_move_home(t)), <<>>, "ok")
    ELSE IF c = TUI_KEY_CTRL("e") THEN Result(Dirty(tui_input_move_end(t)), <<>>, "ok")
    ELSE IF c = TUI_KEY_CTRL("u") THEN Result(Dirty(tui_input_clear(t)), <<>>, "ok")
    ELSE IF isprint(c) THEN Result(Dirty(tui_input_insert(t, c)), <<>>, "ok")
    ELSE Result(Dirty(t), <<>>, "ok")

\* ------------------------------------------------------ terminal control
\* The terminal as the program leaves it: attrs (the termios settings in
\* force), cursor, the SIGWINCH disposition, screen (the dimensions the last
\* full repaint was laid out for), paints (the number of full repaints
\* since tui_run was entered or tui_process_input was last called),
\* activations (how often tui_init_terminal put the terminal into raw mode)
\* and restorations (how often tui_restore_terminal re-applied the saved
\* attributes).
NoScreen == [w |-> 0, h |-> 0]

\* the terminal after the output o of one step
Paint(tm, o) ==
    IF \E i \in 1..Len(o) : o[i].ev = "redraw"
    THEN LET i == CHOOSE j \in 1..Len(o) :
                      o[j].ev = "redraw"
                      /\ \A k \in (j + 1)..Len(o) : o[k].ev # "redraw"
         IN  [tm EXCEPT !.screen = [w |-> o[i].w, h |-> o[i].h],
                        !.paints = tm.paints + 1]
    ELSE tm

TUI_DEFAULT_WIDTH == 80
TUI_DEFAULT_HEIGHT == 24

\* results of ioctl(TIOCGWINSZ): failure, or the window size
WinSizes == { [ok |-> FALSE, w |-> 0, h |-> 0],
              [ok |-> TRUE, w |-> 80, h |-> 24],
              [ok |-> TRUE, w |-> 100, h |-> 30] }

tui_get_terminal_size(ws) ==
    IF ws.ok THEN [w |-> ws.w, h |-> ws.h]
    ELSE [w |-> TUI_DEFAULT_WIDTH, h |-> TUI_DEFAULT_HEIGHT]

\* the function as it would be if it hid the cursor and set the flag
\* before the attributes are applied
tui_init_terminal_marks_first(t, tm, io) ==
    IF io = "tcgetattr_fails"
    THEN [t |-> t, term |-> tm, out |-> <<>>, err |-> "ERR_FAILED"]
    ELSE LET t1 == [t EXCEPT !.original_termios = tm.attrs,
                             !.raw_mode = TRUE] IN
         IF io = "tcsetattr_fails"
         THEN [t    |-> t1,
               term |-> [tm EXCEPT !.cursor = "hidden"],
               out  |-> <<Event("cursor_hide", <<>>, 0, 0)>>,
               err  |-> "ERR_FAILED"]
         ELSE [t    |-> t1,
               term |-> [tm EXCEPT !.attrs = "raw", !.cursor = "hidden",
                                   !.activations = @ + 1],
               out  |-> <<Event("cursor_hide", <<>>, 0, 0)>>,
               err  |-> "ERR_OK"]

\* io: which of tcgetattr / tcsetattr fails, if any.  The raw attributes
\* are derived from the captured ones.
tui_init_terminal(t, tm, io) ==
    IF io = "tcgetattr_fails"
    THEN [t |-> t, term |-> tm, out |-> <<>>, err |-> "ERR_FAILED"]
    ELSE LET t1 == [t EXCEPT !.original_termios = tm.attrs] IN
         IF io = "tcsetattr_fails"
         THEN [t |-> t1, term |-> tm, out |-> <<>>, err |-> "ERR_FAILED"]
         ELSE [t    |-> [t1 EXCEPT !.raw_mode = TRUE],
               term |-> [tm EXCEPT !.attrs = "raw", !.cursor = "hidden",
                                   !.activations = @ + 1],
               out  |-> <<Event("cursor_hide", <<>>, 0, 0)>>,
               err  |-> "ERR_OK"]

\* re-applies the saved attributes and shows the cursor, if raw mode is on
tui_restore_terminal(t, tm) ==
    IF ~t.raw_mode
    THEN [t |-> t, term |-> tm, out |-> <<>>]
    ELSE [t    |-> [t EXCEPT !.raw_mode = FALSE],
          term |-> [tm EXCEPT !.attrs = t.original_termios,
                              !.cursor = "visible",
                              !.restorations = @ + 1],
          out  |-> <<Event("cursor_show", <<>>, 0, 0)>>]

\* the SIGWINCH handler; s is the session g_tui points to
resize_handler(s, ws) ==
    LET sz == tui_get_terminal_size(ws)
    IN  [s EXCEPT !.width = sz.w, !.height = sz.h, !.needs_redraw = TRUE]

tui_stop(t) == [t EXCEPT !.running = FALSE]

\* ------------------------------------------------------------------ Init
Init ==
    /\ \E ws \in WinSizes :
           tui = tui_create(tui_get_terminal_size(ws).w,
                            tui_get_terminal_size(ws).h)
    /\ g_tui = "tui"
    /\ pc = "idle"
    /\ run_ret = "none"
    /\ term = [attrs |-> "cooked", cursor |-> "visible", sigwinch |-> "SIG_DFL",
               screen |-> NoScreen, paints |-> 0,
               activations |-> 0, restorations |-> 0]
    /\ out = <<>>
    /\ ret = NULL
    /\ last = [op |-> "tui_create", arg |-> <<>>]
    /\ mem = "ok"
    /\ accepted = <<>>
    /\ browse = <<>>

\* ----------------------------------------------------- the loop of tui_run
\* bytes one call of tui_process_input can consume: nothing (timeout), one
\* byte, or an escape sequence cut short by a timeout or read in full
Keys ==
    { <<>>, <<"a">>, <<"CR">>, <<"LF">>, <<TUI_KEY_BACKSPACE>>,
      <<TUI_KEY_CTRL("a")>>, <<TUI_KEY_CTRL("e")>>, <<TUI_KEY_CTRL("u")>>,
      <<TUI_KEY_CTRL("c")>>, <<TUI_KEY_CTRL("q")>>, <<TUI_KEY_CTRL("h")>>,
      <<TUI_KEY_CTRL("n")>>, <<TUI_KEY_CTRL("l")>>, <<TUI_KEY_CTRL("b")>>,
      <<"ESC">>, <<"ESC", "[">>, <<"ESC", "O", "A">>, <<"ESC", "[", "x">>,
      <<"ESC", "[", "A">>, <<"ESC", "[", "B">>, <<"ESC", "[", "C">>,
      <<"ESC", "[", "D">>, <<"ESC", "[", "3">>, <<"ESC", "[", "3", "~">>,
      <<"ESC", "[", "3", "x">> }

\* what a read outside the history array can deliver
Garbage == { NULL, SEGV, <<"a">>, [i \in 1..TUI_MAX_INPUT_LENGTH |-> "a"] }

\* what a read of an uninitialised buffer cell can deliver
UninitReads == { NUL, "x" }

\* tui_run up to the installation of the resize handler, called when the
\* caller is at position at
RunFrom(at) ==
    /\ mem = "ok"
    /\ pc = at
    /\ \E io \in {"ok", "tcgetattr_fails", "tcsetattr_fails"} :
        LET r == tui_init_terminal([tui EXCEPT !.running = TRUE], term, io) IN
        /\ tui' = r.t
        /\ out' = r.out
        /\ IF r.err # "ERR_OK"
           THEN /\ pc' = "returned"
                /\ run_ret' = r.err
                /\ term' = r.term
           ELSE /\ pc' = "initial_draw"
                /\ run_ret' = "none"
                /\ term' = [r.term EXCEPT !.sigwinch = "resize_handler",
                                          !.paints = 0]
        /\ last' = [op |-> "tui_run", arg |-> <<io>>]
    /\ UNCHANGED <<g_tui, ret, mem, accepted, browse>>

\* the first call of tui_run on the session
RunEnter == RunFrom("idle")

InitialDraw ==
    /\ mem = "ok"
    /\ pc = "initial_draw"
    /\ out' = <<tui_redraw(tui)>>
    /\ term' = Paint(term, <<tui_redraw(tui)>>)
    /\ pc' = "loop_test"
    /\ last' = [op |-> "initial_draw", arg |-> <<>>]
    /\ UNCHANGED <<tui, g_tui, run_ret, ret, mem, accepted, browse>>

\* while (tui->running)
LoopTest ==
    /\ mem = "ok"
    /\ pc = "loop_test"
    /\ IF tui.running
       THEN pc' = "test_redraw" /\ UNCHANGED run_ret
       ELSE pc' = "returned" /\ run_ret' = "ERR_OK"
    /\ out' = <<>>
    /\ last' = [op |-> "loop_test", arg |-> <<>>]
    /\ UNCHANGED <<tui, g_tui, term, ret, mem, accepted, browse>>

\* if (tui->needs_redraw)
TestRedraw ==
    /\ mem = "ok"
    /\ pc = "test_redraw"
    /\ pc' = IF tui.needs_redraw THEN "redraw" ELSE "input"
    /\ out' = <<>>
    /\ last' = [op |-> "test_redraw", arg |-> <<>>]
    /\ UNCHANGED <<tui, g_tui, run_ret, term, ret, mem, accepted, browse>>

Redraw ==
    /\ mem = "ok"
    /\ pc = "redraw"
    /\ out' = <<tui_redraw(tui)>>
    /\ term' = Paint(term, <<tui_redraw(tui)>>)
    /\ pc' = "clear_redraw"
    /\ last' = [op |-> "redraw", arg |-> <<>>]
    /\ UNCHANGED <<tui, g_tui, run_ret, ret, mem, accepted, browse>>

\* tui->needs_redraw = false
ClearRedraw ==
    /\ mem = "ok"
    /\ pc = "clear_redraw"
    /\ tui' = [tui EXCEPT !.needs_redraw = FALSE]
    /\ pc' = "input"
    /\ out' = <<>>
    /\ last' = [op |-> "clear_redraw", arg |-> <<>>]
    /\ UNCHANGED <<g_tui, run_ret, term, ret, mem, accepted, browse>>

\* one call of tui_process_input in the loop, reading a chunk out of keys
Dispatch(keys) ==
    /\ mem = "ok"
    /\ pc = "input"
    /\ \E rd \in keys :
       \E g \in IF rd = <<"ESC", "[", "B">> THEN Garbage ELSE {NULL} :
       \E u \in IF rd \in {<<"ESC", "[", "A">>, <<"ESC", "[", "B">>}
                THEN UninitReads ELSE {NUL} :
        /\ (rd = <<"ESC", "[", "B">> /\ tui.history_count > 0)
               => tui.history_pos > NOT_BROWSING - MaxUnderflow
        /\ LET r == tui_process_input(tui, rd, g, u) IN
            /\ tui' = r.t
            /\ out' = r.out
            /\ mem' = r.mem
            /\ term' = [Paint(term, r.out) EXCEPT !.paints = 0]
        /\ last' = [op |-> "tui_process_input", arg |-> rd]
    /\ pc' = "loop_test"
    /\ UNCHANGED <<g_tui, run_ret, ret, accepted, browse>>

ProcessInput == Dispatch(Keys)

\* the session object has been freed by tui_destroy
Freed == pc \in {"freed", "destroyed"}

\* the handler as it would be if it repainted by itself
Resize_draws ==
    /\ mem = "ok"
    /\ term.sigwinch = "resize_handler"
    /\ g_tui # "NULL"
    /\ \E ws \in WinSizes :
        /\ tui' = resize_handler(tui, ws)
        /\ out' = <<tui_redraw(resize_handler(tui, ws))>>
        /\ last' = [op |-> "resize_handler", arg |-> <<ws.ok>>]
    /\ mem' = IF Freed THEN "undefined" ELSE mem
    /\ UNCHANGED <<g_tui, pc, run_ret, term, ret, accepted, browse>>

\* SIGWINCH delivered while the handler is installed.  The handler writes
\* through g_tui; when the session it points to is already freed, that is a
\* write into freed memory.
Resize ==
    /\ mem = "ok"
    /\ term.sigwinch = "resize_handler"
    /\ g_tui # "NULL"
    /\ \E ws \in WinSizes :
        /\ tui' = resize_handler(tui, ws)
        /\ last' = [op |-> "resize_handler", arg |-> <<ws.ok>>]
    /\ out' = <<>>
    /\ mem' = IF Freed THEN "undefined" ELSE mem
    /\ UNCHANGED <<g_tui, pc, run_ret, term, ret, accepted, browse>>

\* tui_stop called from outside the loop
Stop ==
    /\ mem = "ok"
    /\ ~Freed
    /\ tui' = tui_stop(tui)
    /\ out' = <<>>
    /\ last' = [op |-> "tui_stop", arg |-> <<>>]
    /\ UNCHANGED <<g_tui, pc, run_ret, term, ret, mem, accepted, browse>>

Next ==
    \/ RunEnter
    \/ InitialDraw
    \/ LoopTest
    \/ TestRedraw
    \/ Redraw
    \/ ClearRedraw
    \/ ProcessInput
    \/ Resize
    \/ Stop

Spec == Init /\ [][Next]_vars

\* the thread inside tui_run keeps executing, and read() returns after its
\* timeout when no byte arrives
LoopStep ==
    InitialDraw \/ LoopTest \/ TestRedraw \/ Redraw \/ ClearRedraw \/ ProcessInput

SpecFair == Spec /\ WF_vars(LoopStep)

\* ------------------------------------------ the life cycle of a session
\* Calls the application makes between runs: tui_run again,
\* tui_restore_terminal, tui_destroy.  The loop reads few keys here.
LifeKeys == { <<>>, <<"a">>, <<TUI_KEY_CTRL("c")>> }

LifeInput == Dispatch(LifeKeys)

\* tui_run called again after it returned
RunAgain ==
    /\ term.activations < MaxRuns
    /\ RunFrom("returned")

\* tui_restore_terminal called by the application
Restore ==
    /\ mem = "ok"
    /\ pc \in {"idle", "returned"}
    /\ LET r == tui_restore_terminal(tui, term) IN
        /\ tui' = r.t
        /\ term' = r.term
        /\ out' = r.out
    /\ last' = [op |-> "tui_restore_terminal", arg |-> <<>>]
    /\ UNCHANGED <<g_tui, pc, run_ret, ret, mem, accepted, browse>>

\* tui_destroy up to free(tui): restores the terminal and frees the session;
\* g_tui still holds the pointer
DestroyFree ==
    /\ mem = "ok"
    /\ pc \in {"idle", "returned"}
    /\ LET r == tui_restore_terminal(tui, term) IN
        /\ tui' = r.t
        /\ term' = r.term
        /\ out' = r.out
    /\ pc' = "freed"
    /\ last' = [op |-> "tui_destroy", arg |-> <<>>]
    /\ UNCHANGED <<g_tui, run_ret, ret, mem, accepted, browse>>

\* the end of tui_destroy: if (g_tui == tui) g_tui = NULL
DestroyClear ==
    /\ mem = "ok"
    /\ pc = "freed"
    /\ g_tui' = IF g_tui = "tui" THEN "NULL" ELSE g_tui
    /\ pc' = "destroyed"
    /\ out' = <<>>
    /\ last' = [op |-> "destroy_clear", arg |-> <<>>]
    /\ UNCHANGED <<tui, run_ret, term, ret, mem, accepted, browse>>

\* tui_create called for a new session after the last one was destroyed; the
\* SIGWINCH disposition of the process is what earlier runs left
Create ==
    /\ mem = "ok"
    /\ pc = "destroyed"
    /\ term.activations < MaxRuns
    /\ \E ws \in WinSizes :
           tui' = tui_create(tui_get_terminal_size(ws).w,
                             tui_get_terminal_size(ws).h)
    /\ g_tui' = "tui"
    /\ pc' = "idle"
    /\ run_ret' = "none"
    /\ out' = <<>>
    /\ last' = [op |-> "tui_create", arg |-> <<>>]
    /\ UNCHANGED <<term, ret, mem, accepted, browse>>

NextLife ==
    \/ RunEnter
    \/ RunAgain
    \/ InitialDraw
    \/ LoopTest
    \/ TestRedraw
    \/ Redraw
    \/ ClearRedraw
    \/ LifeInput
    \/ Stop
    \/ Resize
    \/ Restore
    \/ DestroyFree
    \/ DestroyClear
    \/ Create

SpecLife == Init /\ [][NextLife]_vars

\* ------------------------------------- the history store, called directly
HistEntries == { NULL, <<>>, <<"a">>, <<"b">>, <<"c">> }

\* tui_history_add stores entry (it is neither rejected as empty nor as a
\* repeat of the newest entry)
Stores(t, entry) ==
    /\ entry # NULL
    /\ entry # <<>>
    /\ t.history_count = 0 \/ t.history[0] # entry

HistAdd ==
    /\ mem = "ok"
    /\ Len(accepted) < MaxAdds
    /\ \E e \in HistEntries :
        /\ tui' = tui_history_add(tui, e)
        /\ accepted' = IF Stores(tui, e) THEN Append(accepted, e) ELSE accepted
        /\ browse' = IF Stores(tui, e) THEN <<>> ELSE browse
        /\ last' = [op |-> "tui_history_add", arg |-> e]
    /\ ret' = NULL
    /\ UNCHANGED <<g_tui, pc, run_ret, term, out, mem>>

HistPrev ==
    /\ mem = "ok"
    /\ Len(browse) < MaxBrowse
    /\ LET r == tui_history_prev(tui) IN
        /\ tui' = r.t
        /\ ret' = r.ret
        /\ browse' = Append(browse, [op |-> "prev", ret |-> r.ret])
    /\ last' = [op |-> "tui_history_prev", arg |-> <<>>]
    /\ UNCHANGED <<g_tui, pc, run_ret, term, out, mem, accepted>>

HistNext ==
    /\ mem = "ok"
    /\ Len(browse) < MaxBrowse
    /\ tui.history_count > 0 => tui.history_pos > NOT_BROWSING - MaxUnderflow
    /\ \E g \in Garbage :
        LET r == tui_history_next(tui, g) IN
        /\ tui' = r.t
        /\ ret' = r.ret
        /\ mem' = IF r.ret = SEGV THEN "fault" ELSE "ok"
        /\ browse' = Append(browse, [op |-> "next", ret |-> r.ret])
    /\ last' = [op |-> "tui_history_next", arg |-> <<>>]
    /\ UNCHANGED <<g_tui, pc, run_ret, term, out, accepted>>

NextHist ==
    \/ HistAdd
    \/ HistPrev
    \/ HistNext

SpecHist == Init /\ [][NextHist]_vars

\* --------------------------------------- the line editor, called directly
EditChars == { "a", "b" }

EditOps ==
    { "tui_input_backspace", "tui_input_delete", "tui_input_move_left",
      "tui_input_move_right", "tui_input_move_home", "tui_input_move_end",
      "tui_input_clear" }

EditApply(op, t) ==
    CASE op = "tui_input_backspace"  -> tui_input_backspace(t)
      [] op = "tui_input_delete"     -> tui_input_delete(t)
      [] op = "tui_input_move_left"  -> tui_input_move_left(t)
      [] op = "tui_input_move_right" -> tui_input_move_right(t)
      [] op = "tui_input_move_home"  -> tui_input_move_home(t)
      [] op = "tui_input_move_end"   -> tui_input_move_end(t)
      [] op = "tui_input_clear"      -> tui_input_clear(t)

EditInsert ==
    /\ mem = "ok"
    /\ \E c \in EditChars :
        /\ tui' = tui_input_insert(tui, c)
        /\ last' = [op |-> "tui_input_insert", arg |-> <<c>>]
    /\ ret' = NULL
    /\ UNCHANGED <<g_tui, pc, run_ret, term, out, mem, accepted, browse>>

EditOp ==
    /\ mem = "ok"
    /\ \E op \in EditOps :
        /\ tui' = EditApply(op, tui)
        /\ last' = [op |-> op, arg |-> <<>>]
    /\ ret' = NULL
    /\ UNCHANGED <<g_tui, pc, run_ret, term, out, mem, accepted, browse>>

EditGet ==
    /\ mem = "ok"
    /\ ret' = tui_input_get(tui)
    /\ last' = [op |-> "tui_input_get", arg |-> <<>>]
    /\ UNCHANGED <<tui, g_tui, pc, run_ret, term, out, mem, accepted, browse>>

NextEdit ==
    \/ EditInsert
    \/ EditOp
    \/ EditGet

SpecEdit == Init /\ [][NextEdit]_vars

\* ================================================================ claims

\* C1: whenever tui_run has returned to its caller (after Ctrl+C, Ctrl+Q,
\* tui_stop, or a failed tui_init_terminal) the terminal is no longer in raw
\* mode: raw_mode is false and the saved attributes are back in force.
C1_RestoredOnReturn ==
    pc = "returned" => (~tui.raw_mode /\ term.attrs = "cooked")

\* C3: tui_history_next called while the store is not browsing and holds at
\* least one entry returns none and changes nothing (the store stays
\* not-browsing, so a following tui_history_prev starts at the newest entry).
C3_NextWhileNotBrowsingIsNoOp ==
    [][ ( /\ last'.op = "tui_history_next"
          /\ tui.history_count >= 1
          /\ tui.history_pos = NOT_BROWSING )
        => (ret' = NULL /\ tui' = tui /\ mem' = "ok") ]_vars

\* C4: the two-pointer browsing convention over a store of n >= 1 entries.
\* Step by step: prev from not-browsing returns entry 0; prev from i returns
\* entry i+1 if it exists, else none with the index kept; next from i > 0
\* returns entry i-1; next from 0 returns none and leaves browsing.  Over a
\* run started not-browsing: n prev calls return the entries newest to
\* oldest, the (n+1)-th returns none, and the n next calls that follow return
\* the n-1 newer entries and then none.
C4_Expected(j) ==
    LET n == tui.history_count IN
    IF j <= n THEN tui.history[j - 1]
    ELSE IF j = n + 1 THEN NULL
    ELSE IF j - (n + 1) <= n - 1 THEN tui.history[n - 1 - (j - (n + 1))]
    ELSE NULL

C4_PrevsThenNexts ==
    /\ tui.history_count >= 1
    /\ Len(browse) <= 2 * tui.history_count + 1
    /\ \A j \in 1..Len(browse) :
          browse[j].op = IF j <= tui.history_count + 1 THEN "prev" ELSE "next"

C4_Step ==
    LET n == tui.history_count
        i == tui.history_pos
        prev == last'.op = "tui_history_prev"
        next == last'.op = "tui_history_next"
    IN  (n >= 1 /\ (prev \/ next) /\ (i = NOT_BROWSING \/ i \in 0..(n - 1))) =>
        /\ tui'.history = tui.history /\ tui'.history_count = n
        /\ (prev /\ i = NOT_BROWSING) =>
               (ret' = tui.history[0] /\ tui'.history_pos = 0)
        /\ (prev /\ i \in 0..(n - 1) /\ i + 1 < n) =>
               (ret' = tui.history[i + 1] /\ tui'.history_pos = i + 1)
        /\ (prev /\ i \in 0..(n - 1) /\ i + 1 >= n) =>
               (ret' = NULL /\ tui'.history_pos = i)
        /\ (next /\ i \in 1..(n - 1)) =>
               (ret' = tui.history[i - 1] /\ tui'.history_pos = i - 1)
        /\ (next /\ i = 0) =>
               (ret' = NULL /\ tui'.history_pos = NOT_BROWSING)

\* C4: every prev/next step, and every round of prev calls followed by next
\* calls, returns what the two-pointer convention prescribes.
C4_BrowseConvention ==
    /\ [](C4_PrevsThenNexts =>
             \A j \in 1..Len(browse) : browse[j].ret = C4_Expected(j))
    /\ [][C4_Step]_vars

\* a full round: n + 1 prev calls and n next calls on a full store, ending
\* not-browsing
C4_Witness ==
    /\ tui.history_count = tui.history_capacity
    /\ C4_PrevsThenNexts
    /\ Len(browse) = 2 * tui.history_count + 1
    /\ ret = NULL
    /\ tui.history_pos = NOT_BROWSING

\* the first n elements of a sequence
Take(sq, n) == [i \in 1..Min(n, Len(sq)) |-> sq[i]]

\* a sequence back to front
Reverse(sq) == [i \in 1..Len(sq) |-> sq[Len(sq) + 1 - i]]

\* C5: tui_history_add of an accepted entry puts it at index 0 and moves
\* every stored entry one position older in the same order, dropping exactly
\* the oldest one when the store was full; history_count never exceeds
\* history_capacity and the store holds the most recent accepted entries
\* newest first.
C5_AddStep ==
    (last'.op = "tui_history_add" /\ Stores(tui, last'.arg)) =>
        Hist(tui') = Take(<<last'.arg>> \o Hist(tui), tui.history_capacity)

\* C5: the store is the newest history_capacity accepted entries, newest
\* first, and each accepted add shifts and evicts accordingly.
C5_AddShiftsAndEvicts ==
    /\ [](/\ tui.history_count <= tui.history_capacity
          /\ Hist(tui) = Take(Reverse(accepted), tui.history_capacity))
    /\ [][C5_AddStep]_vars

\* the oldest accepted entry has been evicted from a full store
C5_Witness ==
    /\ last.op = "tui_history_add"
    /\ tui.history_count = tui.history_capacity
    /\ Len(accepted) > tui.history_capacity
    /\ tui.history[0] = accepted[Len(accepted)]

\* C6: no stored entry is empty and no two adjacent stored entries are
\* equal; an add of the empty string or of a string equal to the newest
\* entry leaves the entries and history_count unchanged.
C6_RejectStep ==
    (last'.op = "tui_history_add" /\ ~Stores(tui, last'.arg)) =>
        (tui'.history = tui.history /\ tui'.history_count = tui.history_count)

Without(sq, i) == [j \in 1..(Len(sq) - 1) |-> IF j < i THEN sq[j] ELSE sq[j + 1]]

\* a sequence with c put in front of its i-th element
WithAt(sq, i, c) ==
    [j \in 1..(Len(sq) + 1) |->
        IF j < i THEN sq[j] ELSE IF j = i THEN c ELSE sq[j - 1]]

\* C9: the text read through tui_input_get equals a reference sequence
\* edited at the cursor.  insert at cursor p with length < capacity-1 gives
\* text[0..p) + c + text[p..) and cursor p+1; backspace at p > 0 removes the
\* character at p-1 and moves the cursor to p-1; delete at p < length removes
\* the character at p and keeps the cursor; backspace at 0, delete at
\* length, move_left at 0, move_right at length and insert at length ==
\* capacity-1 change neither text nor length nor cursor.
C9_Step ==
    LET text  == tui_input_get(tui)
        text2 == tui_input_get(tui')
        p     == tui.input_pos
        n     == tui.input_len
        op    == last'.op
        same  == text2 = text /\ tui'.input_len = n /\ tui'.input_pos = p
    IN  /\ op = "tui_input_insert" =>
            IF n < tui.input_capacity - 1
            THEN /\ text2 = WithAt(text, p + 1, last'.arg[1])
                 /\ tui'.input_len = n + 1
                 /\ tui'.input_pos = p + 1
            ELSE same
        /\ op = "tui_input_backspace" =>
            IF p > 0
            THEN /\ text2 = Without(text, p)
                 /\ tui'.input_len = n - 1
                 /\ tui'.input_pos = p - 1
            ELSE same
        /\ op = "tui_input_delete" =>
            IF p < n
            THEN /\ text2 = Without(text, p + 1)
                 /\ tui'.input_len = n - 1
                 /\ tui'.input_pos = p
            ELSE same
        /\ (op = "tui_input_move_left" /\ p = 0) => same
        /\ (op = "tui_input_move_right" /\ p = n) => same
        /\ op = "tui_input_get" => (ret' = text /\ same)

\* C9: the buffer always reads back with length input_len, and every editor
\* call agrees with the reference edit.
C9_EditsAtCursor ==
    /\ [](Len(tui_input_get(tui)) = tui.input_len)
    /\ [][C9_Step]_vars

\* a line typed to full length one character at a time reads back as typed
C9_Witness ==
    /\ last.op = "tui_input_insert"
    /\ tui.input_len = tui.input_capacity - 1
    /\ tui.input_pos = tui.input_len
    /\ tui_input_get(tui) =
           [i \in 1..tui.input_len |-> IF i % 2 = 1 THEN "a" ELSE "b"]

\* C2: in every state reached by editing and by history recalls through
\* Arrow-Up / Arrow-Down, 0 <= input_pos <= input_len <= input_capacity-1
\* and input_buffer holds the terminator at index input_len.
C2_EditorInvariant ==
    /\ 0 <= tui.input_pos
    /\ tui.input_pos <= tui.input_len
    /\ tui.input_len <= tui.input_capacity - 1
    /\ tui.input_buffer[tui.input_len] = NUL

IsEnter(l) == l.op = "tui_process_input" /\ l.arg \in {<<"CR">>, <<"LF">>}

\* C7: after Enter submits a non-empty line, also one equal to the newest
\* history entry, the store is not browsing.
C7_EnterResetsBrowsing ==
    [][ (IsEnter(last') /\ tui.input_len > 0)
        => tui'.history_pos = NOT_BROWSING ]_vars

\* C8: Enter with a non-empty line adds the text to the history, hands
\* exactly that text over once as the submitted line, clears the line
\* (length 0, cursor 0) and sets the dirty flag; Enter with an empty line
\* submits nothing and leaves the history unchanged.
C8_Step ==
    LET text == tui_input_get(tui) IN
    IsEnter(last') =>
        IF tui.input_len > 0
        THEN /\ tui'.history_count >= 1
             /\ tui'.history[0] = text
             /\ Stores(tui, text) =>
                    Hist(tui') = Take(<<text>> \o Hist(tui), tui.history_capacity)
             /\ ~Stores(tui, text) => Hist(tui') = Hist(tui)
             /\ out' = <<[ev |-> "user", text |-> text, w |-> 0, h |-> 0]>>
             /\ tui'.input_len = 0
             /\ tui'.input_pos = 0
             /\ tui_input_get(tui') = <<>>
             /\ tui'.needs_redraw
        ELSE /\ out' = <<>>
             /\ tui'.history = tui.history
             /\ tui'.history_count = tui.history_count
             /\ tui'.history_pos = tui.history_pos

\* C8: every Enter step adds, hands over, clears and marks dirty as stated.
C8_EnterSubmits == [][C8_Step]_vars

\* a full-length line has just been submitted and displaced an older entry
C8_Witness ==
    /\ IsEnter(last)
    /\ Len(out) = 1
    /\ out[1].ev = "user"
    /\ Len(out[1].text) = tui.input_capacity - 1
    /\ tui.history_count = tui.history_capacity
    /\ tui.history[0] = out[1].text
    /\ tui.input_len = 0
    /\ tui.needs_redraw

\* C10: the resize notification changes only the stored width and height
\* and sets the dirty flag; it writes nothing to the terminal and leaves the
\* line, the cursor, the history, the browse index, the running flag, the
\* raw-mode flag and the position of the loop as they were.
C10_Step ==
    last'.op = "resize_handler" =>
        /\ \A f \in (DOMAIN tui) \ {"width", "height", "needs_redraw"} :
               tui'[f] = tui[f]
        /\ tui'.needs_redraw
        /\ \E ws \in WinSizes :
               /\ tui'.width = (IF ws.ok THEN ws.w ELSE TUI_DEFAULT_WIDTH)
               /\ tui'.height = (IF ws.ok THEN ws.h ELSE TUI_DEFAULT_HEIGHT)
        /\ out' = <<>>
        /\ UNCHANGED <<g_tui, pc, run_ret, term, mem>>

\* C10: every resize step changes only width, height and the dirty flag.
C10_ResizeOnlyMarksDirty == [][C10_Step]_vars

\* a resize arrived between the repaint and the read, with a line typed,
\* the store browsing and the size different from the one painted
C10_Witness ==
    /\ last.op = "resize_handler"
    /\ pc = "input"
    /\ tui.needs_redraw
    /\ tui.input_len > 0
    /\ tui.history_pos = 0
    /\ tui.history_count > 0
    /\ tui.running
    /\ tui.raw_mode

\* the positions of tui_run inside its while loop
LoopPcs == {"loop_test", "test_redraw", "redraw", "clear_redraw", "input"}

\* C11: a resize delivered at any point of the loop, also between tui_redraw
\* and the clearing of needs_redraw, is followed by a full repaint with the
\* new width and height on the next iteration without further input or
\* resize: whenever the loop goes to read input with the dirty flag clear,
\* the screen is laid out for the stored dimensions.
C11_ResizeIsRepainted ==
    (mem = "ok" /\ pc = "input" /\ ~tui.needs_redraw)
        => term.screen = [w |-> tui.width, h |-> tui.height]

\* C12: when tcgetattr or tcsetattr fails in tui_init_terminal, tui_run
\* returns the error at once: the cursor, the terminal attributes, the signal
\* disposition and raw_mode are as before, and nothing was drawn or read.
C12_Step ==
    (last'.op = "tui_run" /\ last'.arg # <<"ok">>)
        => /\ pc' = "returned"
           /\ run_ret' = "ERR_FAILED"
           /\ term' = term
           /\ tui'.raw_mode = tui.raw_mode
           /\ out' = <<>>

C12_FailedInitHasNoEffect == [][C12_Step]_vars

C12_Witness ==
    /\ last.op = "tui_run"
    /\ last.arg = <<"tcsetattr_fails">>
    /\ pc = "returned"
    /\ run_ret = "ERR_FAILED"
    /\ term.cursor = "visible"
    /\ ~tui.raw_mode

\* C13: tui_restore_terminal does nothing when raw_mode is false (so a second
\* call in a row has no effect), and every successful entry into raw mode is
\* matched by exactly one re-application of the saved attributes: restorations
\* never exceed activations, and they are equal once the session is destroyed.
C13_RestoreStep ==
    (last'.op = "tui_restore_terminal" /\ ~tui.raw_mode)
        => (tui' = tui /\ term' = term /\ out' = <<>>)

C13_RestoredOncePerActivation ==
    /\ [][C13_RestoreStep]_vars
    /\ [](term.restorations <= term.activations)
    /\ [](pc = "destroyed" => term.restorations = term.activations)

\* C14: a truncated escape sequence, an escape sequence that is not a
\* recognised one, and an unrecognised single byte leave the session (line,
\* cursor, history, browse index, running flag, dirty flag) as it was.
InputAnomalies ==
    { <<"ESC">>, <<"ESC", "[">>, <<"ESC", "O", "A">>, <<"ESC", "[", "x">>,
      <<TUI_KEY_CTRL("b")>> }

C14_Step ==
    (last'.op = "tui_process_input" /\ last'.arg \in InputAnomalies)
        => (tui' = tui /\ mem' = "ok")

C14_AnomaliesChangeNothing == [][C14_Step]_vars

\* C15: once the running flag is cleared while tui_run executes, the loop
\* dispatches no key after the current iteration and tui_run returns, with
\* no input byte needed.
C15_NoFurtherIteration ==
    (pc = "loop_test" /\ ~tui.running /\ pc' # pc) => pc' = "returned"

C15_StopReturns ==
    /\ [][C15_NoFurtherIteration]_vars
    /\ ((pc \in LoopPcs \cup {"initial_draw"} /\ ~tui.running)
            ~> (pc = "returned"))

\* C16: Arrow-Up / Arrow-Down.  A returned entry replaces the line (cut to
\* capacity - 1) with the cursor at its end; Up without an entry leaves the
\* line alone; Down clears the line only when tui_history_next returns none
\* while browsing; Down while not browsing, also with an empty history,
\* leaves line and cursor alone.
Line(t) == <<tui_input_get(t), t.input_len, t.input_pos>>

LineOf(entry, cap) ==
    LET e == [i \in 1..Min(Len(entry), cap - 1) |-> entry[i]]
    IN  <<e, Len(e), Len(e)>>

C16_Step ==
    LET up   == last'.arg = <<"ESC", "[", "A">>
        down == last'.arg = <<"ESC", "[", "B">>
        p    == tui_history_prev(tui)
        idle == tui.history_count = 0 \/ tui.history_pos = NOT_BROWSING
    IN  last'.op = "tui_process_input" =>
        /\ (up /\ p.ret # NULL)
               => Line(tui') = LineOf(p.ret, tui.input_capacity)
        /\ (up /\ p.ret = NULL) => Line(tui') = Line(tui)
        /\ (down /\ idle) => Line(tui') = Line(tui)
        /\ (down /\ ~idle /\ tui.history_pos = 0)
               => Line(tui') = <<<<>>, 0, 0>>
        /\ (down /\ ~idle /\ (tui.history_pos - 1) \in DOMAIN tui.history)
               => Line(tui') = LineOf(tui.history[tui.history_pos - 1],
                                      tui.input_capacity)

C16_RecallReplacesLine == [][C16_Step]_vars

\* C17: Delete is dispatched for ESC [ 3 ~ only; ESC [ 3 followed by another
\* byte or by a timeout deletes nothing.
C17_Step ==
    last'.op = "tui_process_input" =>
        /\ last'.arg = <<"ESC", "[", "3", "~">>
               => tui' = Dirty(tui_input_delete(tui))
        /\ last'.arg \in {<<"ESC", "[", "3">>, <<"ESC", "[", "3", "x">>}
               => Line(tui') = Line(tui)

C17_DeleteNeedsTilde == [][C17_Step]_vars

\* C18: apart from Ctrl+L, tui_redraw runs at most once between two reads of
\* input, and exactly once before the first read: the initial session state
\* is painted once.
C18_OneRepaintPerIteration ==
    (mem = "ok" /\ pc = "input") => term.paints <= 1

\* C19: original_termios is never overwritten while raw mode is active, so
\* the attributes tui_restore_terminal re-applies are those the terminal had
\* before raw mode was first entered.
C19_RestoreStep ==
    (last'.op \in {"tui_restore_terminal", "tui_destroy"} /\ tui.raw_mode)
        => term'.attrs = "cooked"

C19_SavedAttributesArePreRaw ==
    /\ [](tui.raw_mode => tui.original_termios = "cooked")
    /\ [][C19_RestoreStep]_vars

\* C20: history_pos is the not-browsing sentinel or a valid index below
\* history_count, in every state reached from tui_create by
\* tui_history_add, tui_history_prev and tui_history_next.
C20_PosIsSentinelOrIndex ==
    \/ tui.history_pos = NOT_BROWSING
    \/ (tui.history_pos >= 0 /\ tui.history_pos < tui.history_count)


\* C21: whenever a resize notification can be delivered, g_tui is empty or
\* refers to a session that has not been freed, so resize_handler never reads
\* or writes a destroyed session.
C21_HandlerStep ==
    last'.op = "resize_handler" => (~Freed /\ mem' = "ok")

C21_SlotIsLiveOrEmpty ==
    /\ []((mem = "ok" /\ term.sigwinch = "resize_handler" /\ g_tui # "NULL")
              => ~Freed)
    /\ [][C21_HandlerStep]_vars

====
